---- MODULE Spec2Model ----
(***************************************************************************)
(* Pod Security readiness controller: violation detection                  *)
(* (violation.go) and the aggregation of namespaces into conditions.       *)
(*                                                                         *)
(* Go strings are modelled as sequences of bytes, so that                  *)
(* strings.ToLower, strings.HasPrefix and sort.Strings are computed the    *)
(* way the code computes them.  Go maps are functions whose DOMAIN is the  *)
(* set of keys present.                                                    *)
(***************************************************************************)
EXTENDS Integers, Sequences, FiniteSets, Bags, TLC

(* ---------------------------- bounds ----------------------------------- *)
MaxPods == 2
MaxEmit == 1
MaxSink == 2
MaxAdds == 3

(* ---------------------------- strings ---------------------------------- *)
S_empty == <<>>
S_default == <<100, 101, 102, 97, 117, 108, 116>>
S_kube_system == <<107, 117, 98, 101, 45, 115, 121, 115, 116, 101, 109>>
S_kube_public == <<107, 117, 98, 101, 45, 112, 117, 98, 108, 105, 99>>
S_openshift == <<111, 112, 101, 110, 115, 104, 105, 102, 116>>
S_openshift_etcd == <<111, 112, 101, 110, 115, 104, 105, 102, 116, 45, 101, 116, 99, 100>>
S_app == <<97, 112, 112>>
S_web == <<119, 101, 98>>
S_privileged == <<112, 114, 105, 118, 105, 108, 101, 103, 101, 100>>
S_baseline == <<98, 97, 115, 101, 108, 105, 110, 101>>
S_restricted == <<114, 101, 115, 116, 114, 105, 99, 116, 101, 100>>
S_Restricted == <<82, 101, 115, 116, 114, 105, 99, 116, 101, 100>>
S_bogus == <<98, 111, 103, 117, 115>>
S_user == <<117, 115, 101, 114>>
S_serviceaccount == <<115, 101, 114, 118, 105, 99, 101, 97, 99, 99, 111, 117, 110, 116>>
S_false == <<102, 97, 108, 115, 101>>
S_true == <<116, 114, 117, 101>>

\* strings.ToLower on ASCII bytes
ToLower(s) ==
  [i \in 1..Len(s) |-> IF s[i] >= 65 /\ s[i] <= 90 THEN s[i] + 32 ELSE s[i]]

\* strings.HasPrefix
HasPrefix(s, p) ==
  Len(s) >= Len(p) /\ SubSeq(s, 1, Len(p)) = p

\* m[k] on a Go map[string]string: the zero value "" when the key is missing
MapGet(m, k) ==
  IF k \in DOMAIN m THEN m[k] ELSE S_empty

\* the orders in which a Go map with key set S can be ranged over
RangeOrders(S) ==
  {o \in [1..Cardinality(S) -> S] : \A k \in S : \E i \in 1..Cardinality(S) : o[i] = k}

(* ---------------------------- keys ------------------------------------- *)
WarnLevelLabel == "pod-security.kubernetes.io/warn"
AuditLevelLabel == "pod-security.kubernetes.io/audit"
EnforceLevelLabel == "pod-security.kubernetes.io/enforce"
labelSyncControlLabel == "security.openshift.io/scc.podSecurityLabelSync"
MinimallySufficientPodSecurityStandard == "security.openshift.io/MinimallySufficientPodSecurityStandard"
ValidatedSCCSubjectTypeAnnotation == "security.openshift.io/validated-scc-subject-type"

alertLabels == {WarnLevelLabel, AuditLevelLabel}

(* ---------------------------- errors ----------------------------------- *)
\* a Go error value: its dynamic type and its message; Nil is the nil error
Nil == [type |-> "nil", msg |-> "", arg |-> S_empty]

\* fmt.Errorf without %w yields an *errors.errorString
NoSignalErr ==
  [type |-> "*errors.errorString",
   msg |-> "unable to determine if the namespace is violating because no appropriate labels or annotations were found",
   arg |-> S_empty]

UnknownLevelErr(label) ==
  [type |-> "*errors.errorString", msg |-> "unknown level: %q", arg |-> label]

(* ---------------------------- level ordering --------------------------- *)
\* psapi.ParseLevel: exact (case-sensitive) match of the three level names
ParseLevel(value) ==
  IF value \in {S_privileged, S_baseline, S_restricted}
    THEN [level |-> value, ok |-> TRUE]
    ELSE [level |-> S_empty, ok |-> FALSE]

\* psapi.CompareLevels: 0 if equal, -1 if a is less strict than b, +1 if more
CompareLevels(a, b) ==
  IF a = b THEN 0
  ELSE IF a = S_privileged THEN -1
  ELSE IF a = S_restricted THEN 1
  ELSE IF b = S_privileged THEN 1
  ELSE IF b = S_restricted THEN -1
  ELSE 0

(* ---------------------------- resolver --------------------------------- *)
RECURSIVE pickStrictestLoop(_, _, _, _)
\* the range loop of pickStrictest, visiting the keys in 'order'
pickStrictestLoop(viableLabels, order, i, targetLevel) ==
  IF i > Len(order) THEN targetLevel
  ELSE
    LET value == viableLabels[order[i]]
        parsed == ParseLevel(value)
    IN  IF ~parsed.ok
          THEN pickStrictestLoop(viableLabels, order, i + 1, targetLevel)
        ELSE IF targetLevel = S_empty
          THEN pickStrictestLoop(viableLabels, order, i + 1, value)
        ELSE IF CompareLevels(targetLevel, parsed.level) < 0
          THEN pickStrictestLoop(viableLabels, order, i + 1, value)
        ELSE pickStrictestLoop(viableLabels, order, i + 1, targetLevel)

\* mutant: the last level name visited wins, whatever its strictness
pickStrictest_LastWins(viableLabels, order) ==
  LET parseable == {i \in 1..Len(order) : ParseLevel(viableLabels[order[i]]).ok}
  IN  IF parseable = {} THEN S_restricted
      ELSE viableLabels[order[CHOOSE i \in parseable : \A j \in parseable : j <= i]]

pickStrictest(viableLabels, order) ==
  LET targetLevel == pickStrictestLoop(viableLabels, order, 1, S_empty)
  IN  IF targetLevel = S_empty THEN S_restricted ELSE targetLevel

\* the labels of ns whose key is an alert label
ViableLabels(ns) ==
  [k \in (alertLabels \cap DOMAIN ns.labels) |-> ns.labels[k]]

\* mutant: the check for an empty viableLabels is missing
determineEnforceLabelForNamespace_NoEmptyCheck(ns, order) ==
  IF MinimallySufficientPodSecurityStandard \in DOMAIN ns.annotations
    THEN [label |-> ns.annotations[MinimallySufficientPodSecurityStandard], err |-> Nil]
  ELSE [label |-> pickStrictest(ViableLabels(ns), order), err |-> Nil]

\* mutant: the warn/audit labels are looked at before the annotation
determineEnforceLabelForNamespace_LabelsFirst(ns, order) ==
  IF DOMAIN ViableLabels(ns) # {}
    THEN [label |-> pickStrictest(ViableLabels(ns), order), err |-> Nil]
  ELSE IF MinimallySufficientPodSecurityStandard \in DOMAIN ns.annotations
    THEN [label |-> ns.annotations[MinimallySufficientPodSecurityStandard], err |-> Nil]
  ELSE [label |-> S_empty, err |-> NoSignalErr]

\* mutant: the NoSignal error is built with %w around a sentinel, a
\* *fmt.wrapError
determineEnforceLabelForNamespace_WrapErr(ns, order) ==
  IF MinimallySufficientPodSecurityStandard \in DOMAIN ns.annotations
    THEN [label |-> ns.annotations[MinimallySufficientPodSecurityStandard], err |-> Nil]
  ELSE IF DOMAIN ViableLabels(ns) = {}
    THEN [label |-> S_empty, err |-> [NoSignalErr EXCEPT !.type = "*fmt.wrapError"]]
  ELSE [label |-> pickStrictest(ViableLabels(ns), order), err |-> Nil]

\* ns is the extracted apply configuration; order is the range order of
\* the viable labels
determineEnforceLabelForNamespace(ns, order) ==
  IF MinimallySufficientPodSecurityStandard \in DOMAIN ns.annotations
    THEN [label |-> ns.annotations[MinimallySufficientPodSecurityStandard], err |-> Nil]
  ELSE IF DOMAIN ViableLabels(ns) = {}
    THEN [label |-> S_empty, err |-> NoSignalErr]
  ELSE [label |-> pickStrictest(ViableLabels(ns), order), err |-> Nil]

(* ---------------------------- inputs ----------------------------------- *)
\* the level strings found on namespaces
LevelValues == {S_privileged, S_baseline, S_restricted, S_Restricted, S_bogus, S_empty}

\* every map from a subset of Keys to Vals
Maps(Keys, Vals) == UNION {[D -> Vals] : D \in SUBSET Keys}

ApplyConfigurations ==
  [annotations : Maps({MinimallySufficientPodSecurityStandard}, LevelValues),
   labels : Maps(alertLabels, LevelValues)]

EmptyConfiguration == [annotations |-> <<>>, labels |-> <<>>]

(* ---------------------------- state --------------------------------- *)
VARIABLES
  warnings,      \* warningsHandler.warnings: the shared warning sink
  result,        \* what the last isNamespaceViolating call returned
  call,          \* the last isNamespaceViolating call: its inputs and its steps
  once,          \* a namespace and its pods, for a single call
  resolveIn,     \* argument of the last determineEnforceLabelForNamespace call
  resolveOrder,  \* the range order that call took
  resolveOut,    \* what that call returned
  c,             \* the podSecurityOperatorConditions of the pass
  conditions,    \* the conditions the last toConditionFuncs call rendered
  lastOp         \* the last call on c and its argument

detectVars == <<warnings, result, call, once>>
resolveVars == <<resolveIn, resolveOrder, resolveOut>>
aggVars == <<c, conditions, lastOp>>
vars == <<warnings, result, call, once, resolveIn, resolveOrder, resolveOut, c, conditions, lastOp>>

(* ---------------------------- namespaces ------------------------------- *)
syncerControllerName == "pod-security-admission-label-synchronization-controller"

runLevelZeroNamespaces == {S_default, S_kube_system, S_kube_public}

\* the keys of a map m that are in the set keys, with their values
Restrict(m, keys) == [k \in (DOMAIN m \cap keys) |-> m[k]]

\* applyconfiguration.ExtractNamespace: the fields of ns that the field
\* manager owns (ns.managedFields maps a manager to the keys it owns)
ExtractNamespace(ns, fieldManager) ==
  LET owned == IF fieldManager \in DOMAIN ns.managedFields
                 THEN ns.managedFields[fieldManager] ELSE {}
  IN  [annotations |-> Restrict(ns.annotations, owned),
       labels |-> Restrict(ns.labels, owned)]

\* applyconfiguration.Namespace(name).WithLabels({enforce: enforceLabel})
NamespaceApply(name, enforceLabel) ==
  [name |-> name, labels |-> [k \in {EnforceLevelLabel} |-> enforceLabel]]

shouldCheckForUserSCC(ns) ==
  ~(\/ ns.name \in runLevelZeroNamespaces
    \/ HasPrefix(ns.name, S_openshift)
    \/ MapGet(ns.labels, labelSyncControlLabel) = S_false)

(* ---------------------------- warning sink ----------------------------- *)
\* the text of the i-th warning the API server sends for namespace name
WarningText(name, i) == [namespace |-> name, n |-> i]

\* the k warnings of one dry-run apply
ApplyWarnings(name, k) == [i \in 1..k |-> WarningText(name, i)]

\* warningsHandler.HandleWarningHeader, once per warning of a response
HandleWarningHeaders(sink, texts) == sink \o texts

\* warningsHandler.PopAll: returns the sink's content and empties the sink
PopAll(sink) == [popped |-> sink, sink |-> <<>>]

(* ---------------------------- pods ------------------------------------- *)
\* what policy.DefaultChecks finds in a pod spec: the strictest level the
\* pod keeps
PodSpecs == {S_privileged, S_baseline}

\* Evaluator.EvaluatePod: one result for the privileged level; the baseline
\* checks for baseline; the baseline and the restricted checks for restricted
EvaluatePod(level, pod) ==
  IF level = S_privileged THEN <<[Allowed |-> TRUE]>>
  ELSE IF level = S_baseline THEN <<[Allowed |-> pod.spec # S_privileged]>>
  ELSE <<[Allowed |-> pod.spec # S_privileged], [Allowed |-> pod.spec = S_restricted]>>

\* mutant: only the first result of a pod is looked at
AnyNotAllowed_FirstOnly(results) == ~results[1].Allowed

\* the inner loop over the results of one pod
AnyNotAllowed(results) == \E i \in 1..Len(results) : ~results[i].Allowed

RECURSIVE podLoop(_, _, _)
\* the loop over pods.Items, from index i on
podLoop(pods, i, enforcementLevel) ==
  IF i > Len(pods) THEN FALSE
  ELSE IF /\ ValidatedSCCSubjectTypeAnnotation \in DOMAIN pods[i].annotations
          /\ pods[i].annotations[ValidatedSCCSubjectTypeAnnotation] = S_user
          /\ AnyNotAllowed(EvaluatePod(enforcementLevel, pods[i]))
         THEN TRUE
  ELSE podLoop(pods, i + 1, enforcementLevel)

\* mutant: the switch is on label, not on strings.ToLower(label)
KnownLevel_CaseSensitive(label) == label \in {S_restricted, S_baseline, S_privileged}

\* the switch on strings.ToLower(label)
KnownLevel(label) == ToLower(label) \in {S_restricted, S_baseline, S_privileged}

\* pods, listErr: what Pods(ns.Name).List returns when it is called
isUserViolation(ns, label, pods, listErr) ==
  IF ~shouldCheckForUserSCC(ns) THEN [user |-> FALSE, err |-> Nil, step |-> "skipped"]
  ELSE IF ~KnownLevel(label)
    THEN [user |-> FALSE, err |-> UnknownLevelErr(label), step |-> "unknownLevel"]
  ELSE IF listErr # Nil THEN [user |-> FALSE, err |-> listErr, step |-> "listErr"]
  ELSE [user |-> podLoop(pods, 1, ToLower(label)), err |-> Nil, step |-> "evaluated"]

(* ---------------------------- collaborator errors ---------------------- *)
ExtractErr ==
  [type |-> "*errors.errorString", msg |-> "error extracting managed fields", arg |-> S_empty]

\* errors of the dry-run apply: a reactor's fmt.Errorf, an API status error
ApplyErrors ==
  {[type |-> "*errors.errorString", msg |-> "expected enforce label %s, got %s", arg |-> S_empty],
   [type |-> "*errors.StatusError", msg |-> "Internal error occurred", arg |-> S_empty]}

ListErrors ==
  {[type |-> "*errors.StatusError", msg |-> "Internal error occurred", arg |-> S_empty]}

(* ---------------------------- detector --------------------------------- *)
\* mutant: one warning is not enough
hasWarnings_MoreThanOne(popped) == Len(popped) > 1

\* len(c.warningsHandler.PopAll()) > 0
hasWarnings(popped) == Len(popped) > 0

Returned(violating, userViolation, err) ==
  [violating |-> violating, userViolation |-> userViolation, err |-> err]

NoCall ==
  [ns |-> [name |-> S_empty, labels |-> <<>>, annotations |-> <<>>, managedFields |-> <<>>],
   pods |-> <<>>, step |-> "none", extracted |-> EmptyConfiguration,
   enforceLabel |-> S_empty, applied |-> <<>>, emitted |-> <<>>, popped |-> <<>>]

\* one call isNamespaceViolating(ctx, ns), pods being the pods of ns
isNamespaceViolating(ns, pods) ==
  LET this == [NoCall EXCEPT !.ns = ns, !.pods = pods] IN
  \E extractErr \in {Nil, ExtractErr} :
    IF extractErr # Nil
      THEN /\ result' = Returned(FALSE, FALSE, extractErr)
           /\ call' = [this EXCEPT !.step = "extractErr"]
           /\ UNCHANGED warnings
    ELSE
      LET nsApplyConfig == ExtractNamespace(ns, syncerControllerName) IN
      \E order \in RangeOrders(DOMAIN ViableLabels(nsApplyConfig)) :
        LET r == determineEnforceLabelForNamespace(nsApplyConfig, order)
            resolved == [this EXCEPT !.extracted = nsApplyConfig, !.enforceLabel = r.label]
        IN
        IF r.err # Nil
          THEN /\ result' = Returned(FALSE, FALSE, r.err)
               /\ call' = [resolved EXCEPT !.step = "noSignal"]
               /\ UNCHANGED warnings
        ELSE
          \E k \in 0..MaxEmit, applyErr \in {Nil} \cup ApplyErrors :
            LET emitted == ApplyWarnings(ns.name, k)
                sink == HandleWarningHeaders(warnings, emitted)
                applied == [resolved EXCEPT !.applied = <<NamespaceApply(ns.name, r.label)>>,
                                            !.emitted = emitted]
            IN
            /\ Len(sink) <= MaxSink
            /\ IF applyErr # Nil
                 THEN /\ result' = Returned(FALSE, FALSE, applyErr)
                      /\ call' = [applied EXCEPT !.step = "applyErr"]
                      /\ warnings' = sink
               ELSE
                 LET p == PopAll(sink)
                     drained == [applied EXCEPT !.popped = p.popped]
                 IN
                 /\ warnings' = p.sink
                 /\ IF hasWarnings(p.popped)
                      THEN \E listErr \in {Nil} \cup ListErrors :
                             LET u == isUserViolation(ns, r.label, pods, listErr) IN
                             IF u.err # Nil
                               THEN /\ result' = Returned(FALSE, FALSE, u.err)
                                    /\ call' = [drained EXCEPT !.step = u.step]
                               ELSE /\ result' = Returned(TRUE, u.user, Nil)
                                    /\ call' = [drained EXCEPT !.step = u.step]
                    ELSE /\ result' = Returned(FALSE, FALSE, Nil)
                         /\ call' = [drained EXCEPT !.step = "noWarnings"]

(* ---------------------------- inputs of the detector ------------------- *)
\* a namespace object
Namespace(name, labels, annotations, owned) ==
  [name |-> name, labels |-> labels, annotations |-> annotations,
   managedFields |-> [m \in {syncerControllerName} |-> owned]]

SyncerKeys == {MinimallySufficientPodSecurityStandard} \cup alertLabels

\* namespaces of a sequence of calls
SeqNamespaces ==
  {Namespace(name, <<>>, annotations, SyncerKeys) :
     name \in {S_default, S_app, S_web},
     annotations \in Maps({MinimallySufficientPodSecurityStandard}, {S_restricted, S_bogus})}

Pod(annotations, spec) == [annotations |-> annotations, spec |-> spec]

PodKinds ==
  {Pod(a, s) : a \in Maps({ValidatedSCCSubjectTypeAnnotation}, {S_user, S_serviceaccount}),
               s \in PodSpecs}

SeqOf(S, n) == UNION {[1..m -> S] : m \in 0..n}

\* pod lists of a sequence of calls
SeqPodLists ==
  {<<>>, <<Pod([k \in {ValidatedSCCSubjectTypeAnnotation} |-> S_user], S_privileged)>>}

\* namespaces of a single call: the sync label on app only; the
\* annotation, when present, owned by the syncer or not
OnceNamespaces ==
  {ns \in
     {Namespace(name, labels, annotations, owned) :
        name \in {S_default, S_openshift_etcd, S_app},
        labels \in {l \in Maps({labelSyncControlLabel, WarnLevelLabel, AuditLevelLabel},
                               {S_false, S_baseline, S_restricted, S_bogus}) :
                      /\ labelSyncControlLabel \in DOMAIN l => l[labelSyncControlLabel] = S_false
                      /\ WarnLevelLabel \in DOMAIN l => l[WarnLevelLabel] \in {S_baseline, S_bogus}
                      /\ AuditLevelLabel \in DOMAIN l => l[AuditLevelLabel] = S_restricted},
        annotations \in Maps({MinimallySufficientPodSecurityStandard},
                             {S_privileged, S_restricted, S_Restricted, S_bogus}),
        owned \in {SyncerKeys, alertLabels}} :
     /\ labelSyncControlLabel \in DOMAIN ns.labels => ns.name = S_app
     /\ ns.managedFields[syncerControllerName] = alertLabels => DOMAIN ns.annotations # {}}

(* ---------------------------- aggregator ------------------------------- *)
PodSecurityCustomerViolationType == "PodSecurityCustomerEvaluationViolationConditionsDetected"
PodSecurityOpenshiftViolationType == "PodSecurityOpenshiftEvaluationViolationConditionsDetected"
PodSecurityRunLevelZeroViolationType == "PodSecurityRunLevelZeroEvaluationViolationConditionsDetected"
PodSecurityDisabledSyncerViolationType == "PodSecurityDisabledSyncerEvaluationViolationConditionsDetected"
PodSecurityCustomerInconclusiveType == "PodSecurityCustomerEvaluationInconclusiveConditionsDetected"
PodSecurityOpenshiftInconclusiveType == "PodSecurityOpenshiftEvaluationInconclusiveConditionsDetected"
PodSecurityRunLevelZeroInconclusiveType == "PodSecurityRunLevelZeroEvaluationInconclusiveConditionsDetected"
PodSecurityDisabledSyncerInconclusiveType == "PodSecurityDisabledSyncerEvaluationInconclusiveConditionsDetected"

violationReason == "PSViolationsDetected"
inconclusiveReason == "PSViolationDecisionInconclusive"

\* the zero value of podSecurityOperatorConditions
EmptyConditions ==
  [violatingOpenShiftNamespaces |-> <<>>,
   violatingRunLevelZeroNamespaces |-> <<>>,
   violatingCustomerNamespaces |-> <<>>,
   violatingDisabledSyncerNamespaces |-> <<>>,
   inconclusiveOpenShiftNamespaces |-> <<>>,
   inconclusiveRunLevelZeroNamespaces |-> <<>>,
   inconclusiveCustomerNamespaces |-> <<>>,
   inconclusiveDisabledSyncerNamespaces |-> <<>>]

\* mutant: the sync label is looked at before the openshift prefix
addViolation_SyncFirst(cs, ns) ==
  IF ns.name \in runLevelZeroNamespaces
    THEN [cs EXCEPT !.violatingRunLevelZeroNamespaces = Append(@, ns.name)]
  ELSE IF MapGet(ns.labels, labelSyncControlLabel) = S_false
    THEN [cs EXCEPT !.violatingDisabledSyncerNamespaces = Append(@, ns.name)]
  ELSE IF HasPrefix(ns.name, S_openshift)
    THEN [cs EXCEPT !.violatingOpenShiftNamespaces = Append(@, ns.name)]
  ELSE [cs EXCEPT !.violatingCustomerNamespaces = Append(@, ns.name)]

\* c after c.addViolation(ns)
addViolation(cs, ns) ==
  IF ns.name \in runLevelZeroNamespaces
    THEN [cs EXCEPT !.violatingRunLevelZeroNamespaces = Append(@, ns.name)]
  ELSE IF HasPrefix(ns.name, S_openshift)
    THEN [cs EXCEPT !.violatingOpenShiftNamespaces = Append(@, ns.name)]
  ELSE IF MapGet(ns.labels, labelSyncControlLabel) = S_false
    THEN [cs EXCEPT !.violatingDisabledSyncerNamespaces = Append(@, ns.name)]
  ELSE [cs EXCEPT !.violatingCustomerNamespaces = Append(@, ns.name)]

\* c after c.addInconclusive(ns)
addInconclusive(cs, ns) ==
  IF ns.name \in runLevelZeroNamespaces
    THEN [cs EXCEPT !.inconclusiveRunLevelZeroNamespaces = Append(@, ns.name)]
  ELSE IF HasPrefix(ns.name, S_openshift)
    THEN [cs EXCEPT !.inconclusiveOpenShiftNamespaces = Append(@, ns.name)]
  ELSE IF MapGet(ns.labels, labelSyncControlLabel) = S_false
    THEN [cs EXCEPT !.inconclusiveDisabledSyncerNamespaces = Append(@, ns.name)]
  ELSE [cs EXCEPT !.inconclusiveCustomerNamespaces = Append(@, ns.name)]

RECURSIVE StringLess(_, _)
\* a < b on Go strings: byte-wise lexicographic
StringLess(a, b) ==
  IF Len(b) = 0 THEN FALSE
  ELSE IF Len(a) = 0 THEN TRUE
  ELSE IF a[1] # b[1] THEN a[1] < b[1]
  ELSE StringLess(Tail(a), Tail(b))

RECURSIVE InsertSorted(_, _)
InsertSorted(sorted, x) ==
  IF sorted = <<>> THEN <<x>>
  ELSE IF StringLess(x, Head(sorted)) THEN <<x>> \o sorted
  ELSE <<Head(sorted)>> \o InsertSorted(Tail(sorted), x)

RECURSIVE SortStrings(_)
\* sort.Strings
SortStrings(a) ==
  IF a = <<>> THEN <<>>
  ELSE InsertSorted(SortStrings(SubSeq(a, 1, Len(a) - 1)), a[Len(a)])

RECURSIVE JoinWithSpace(_)
JoinWithSpace(a) ==
  IF a = <<>> THEN <<>>
  ELSE IF Len(a) = 1 THEN a[1]
  ELSE a[1] \o <<32>> \o JoinWithSpace(Tail(a))

\* fmt.Sprintf(messageFormatter, namespaces): %v of a []string is "[a b c]"
Sprintf(messageFormatter, namespaces) ==
  [format |-> messageFormatter, v |-> <<91>> \o JoinWithSpace(namespaces) \o <<93>>]

MessageFormatter(conditionReason) ==
  IF conditionReason = violationReason THEN "Violations detected in namespaces: %v"
  ELSE IF conditionReason = inconclusiveReason
    THEN "Could not evaluate violations for namespaces: %v"
  ELSE ""

\* the namespaces slice after makeCondition: sort.Strings sorts it in place
SortedInPlace(namespaces) ==
  IF Len(namespaces) > 0 THEN SortStrings(namespaces) ELSE namespaces

\* mutant: the names are not sorted before they are formatted
makeCondition_NoSort(conditionType, conditionReason, namespaces) ==
  IF Len(namespaces) > 0
    THEN [Type |-> conditionType, Status |-> "True", Reason |-> conditionReason,
          Message |-> Sprintf(MessageFormatter(conditionReason), namespaces)]
    ELSE [Type |-> conditionType, Status |-> "False", Reason |-> "ExpectedReason",
          Message |-> [format |-> "", v |-> <<>>]]

\* the OperatorCondition of makeCondition (LastTransitionTime, the wall
\* clock, left out; the Message of a False condition is the empty string)
makeCondition(conditionType, conditionReason, namespaces) ==
  IF Len(namespaces) > 0
    THEN [Type |-> conditionType, Status |-> "True", Reason |-> conditionReason,
          Message |-> Sprintf(MessageFormatter(conditionReason), SortedInPlace(namespaces))]
    ELSE [Type |-> conditionType, Status |-> "False", Reason |-> "ExpectedReason",
          Message |-> [format |-> "", v |-> <<>>]]

toConditionFuncs(cs) ==
  <<makeCondition(PodSecurityCustomerViolationType, violationReason, cs.violatingCustomerNamespaces),
    makeCondition(PodSecurityOpenshiftViolationType, violationReason, cs.violatingOpenShiftNamespaces),
    makeCondition(PodSecurityRunLevelZeroViolationType, violationReason, cs.violatingRunLevelZeroNamespaces),
    makeCondition(PodSecurityDisabledSyncerViolationType, violationReason, cs.violatingDisabledSyncerNamespaces),
    makeCondition(PodSecurityCustomerInconclusiveType, inconclusiveReason, cs.inconclusiveCustomerNamespaces),
    makeCondition(PodSecurityOpenshiftInconclusiveType, inconclusiveReason, cs.inconclusiveOpenShiftNamespaces),
    makeCondition(PodSecurityRunLevelZeroInconclusiveType, inconclusiveReason, cs.inconclusiveRunLevelZeroNamespaces),
    makeCondition(PodSecurityDisabledSyncerInconclusiveType, inconclusiveReason, cs.inconclusiveDisabledSyncerNamespaces)>>

\* the number of names c holds
Added(cs) ==
  Len(cs.violatingOpenShiftNamespaces) + Len(cs.violatingRunLevelZeroNamespaces)
  + Len(cs.violatingCustomerNamespaces) + Len(cs.violatingDisabledSyncerNamespaces)
  + Len(cs.inconclusiveOpenShiftNamespaces) + Len(cs.inconclusiveRunLevelZeroNamespaces)
  + Len(cs.inconclusiveCustomerNamespaces) + Len(cs.inconclusiveDisabledSyncerNamespaces)

\* namespaces handed to the aggregator
AggNamespaces ==
  {Namespace(name, labels, <<>>, SyncerKeys) :
     name \in {S_default, S_kube_system, S_openshift_etcd, S_app, S_web},
     labels \in Maps({labelSyncControlLabel}, {S_false, S_true})}

AddViolation ==
  /\ Added(c) < MaxAdds
  /\ \E ns \in AggNamespaces :
       /\ c' = addViolation(c, ns)
       /\ lastOp' = [op |-> "addViolation", ns |-> ns]
  /\ UNCHANGED <<conditions, detectVars, resolveVars>>

AddInconclusive ==
  /\ Added(c) < MaxAdds
  /\ \E ns \in AggNamespaces :
       /\ c' = addInconclusive(c, ns)
       /\ lastOp' = [op |-> "addInconclusive", ns |-> ns]
  /\ UNCHANGED <<conditions, detectVars, resolveVars>>

\* c.toConditionFuncs(): renders the eight conditions and leaves every
\* non-empty list of c sorted
ToConditionFuncs ==
  /\ conditions' = toConditionFuncs(c)
  /\ c' = [f \in DOMAIN c |-> SortedInPlace(c[f])]
  /\ lastOp' = [op |-> "toConditionFuncs", ns |-> NoCall.ns]
  /\ UNCHANGED <<detectVars, resolveVars>>

(* ---------------------------- specifications --------------------------- *)
NoOnce == [ns |-> NoCall.ns, pods |-> <<>>, done |-> TRUE]

NotResolved == [label |-> S_empty, err |-> Nil, called |-> FALSE]

\* the controller as constructed, before any call
Init ==
  /\ warnings = <<>>
  /\ result = Returned(FALSE, FALSE, Nil)
  /\ call = NoCall
  /\ once = NoOnce
  /\ resolveIn = EmptyConfiguration
  /\ resolveOrder = <<>>
  /\ resolveOut = NotResolved
  /\ c = EmptyConditions
  /\ conditions = <<>>
  /\ lastOp = [op |-> "none", ns |-> NoCall.ns]

\* one call of determineEnforceLabelForNamespace
Resolve ==
  /\ ~resolveOut.called
  /\ \E order \in RangeOrders(DOMAIN ViableLabels(resolveIn)) :
       LET r == determineEnforceLabelForNamespace(resolveIn, order)
       IN  /\ resolveOrder' = order
           /\ resolveOut' = [label |-> r.label, err |-> r.err, called |-> TRUE]
  /\ UNCHANGED <<resolveIn, detectVars, aggVars>>

\* the controller before a call on any apply configuration
InitResolve ==
  /\ warnings = <<>>
  /\ result = Returned(FALSE, FALSE, Nil)
  /\ call = NoCall
  /\ once = NoOnce
  /\ resolveIn \in ApplyConfigurations
  /\ resolveOrder = <<>>
  /\ resolveOut = NotResolved
  /\ c = EmptyConditions
  /\ conditions = <<>>
  /\ lastOp = [op |-> "none", ns |-> NoCall.ns]

NextResolve == Resolve

SpecResolve == InitResolve /\ [][NextResolve]_vars

\* a call of isNamespaceViolating in a sequence of calls sharing the sink
Detect ==
  /\ \E ns \in SeqNamespaces, pods \in SeqPodLists : isNamespaceViolating(ns, pods)
  /\ UNCHANGED <<once, resolveVars, aggVars>>

NextDetect == Detect

SpecDetect == Init /\ [][NextDetect]_vars

\* the call of isNamespaceViolating on the namespace once.ns
DetectOnce ==
  /\ ~once.done
  /\ isNamespaceViolating(once.ns, once.pods)
  /\ once' = [once EXCEPT !.done = TRUE]
  /\ UNCHANGED <<resolveVars, aggVars>>

\* the controller before a call on any namespace with any pods
InitOnce ==
  /\ warnings = <<>>
  /\ result = Returned(FALSE, FALSE, Nil)
  /\ call = NoCall
  /\ once \in [ns : OnceNamespaces, pods : SeqOf(PodKinds, MaxPods), done : {FALSE}]
  /\ resolveIn = EmptyConfiguration
  /\ resolveOrder = <<>>
  /\ resolveOut = NotResolved
  /\ c = EmptyConditions
  /\ conditions = <<>>
  /\ lastOp = [op |-> "none", ns |-> NoCall.ns]

NextOnce == DetectOnce

SpecDetectOnce == InitOnce /\ [][NextOnce]_vars

NextAgg == AddViolation \/ AddInconclusive \/ ToConditionFuncs

SpecAgg == Init /\ [][NextAgg]_vars

(* ---------------------------- properties ------------------------------- *)
\* the three level names
Levels == {S_privileged, S_baseline, S_restricted}

\* strictness: privileged < baseline < restricted
Rank(level) ==
  IF level = S_privileged THEN 0 ELSE IF level = S_baseline THEN 1 ELSE 2

\* the category of a namespace, in priority order
Category(ns) ==
  IF ns.name \in {S_default, S_kube_system, S_kube_public} THEN "RunLevelZero"
  ELSE IF Len(ns.name) >= 9 /\ SubSeq(ns.name, 1, 9) = S_openshift THEN "OpenShiftManaged"
  ELSE IF labelSyncControlLabel \in DOMAIN ns.labels /\ ns.labels[labelSyncControlLabel] = S_false
    THEN "SyncDisabled"
  ELSE "Customer"

\* the steps at which a call has drained the sink
DrainedSteps == {"noWarnings", "skipped", "unknownLevel", "listErr", "evaluated"}

HasAnnotation(cfg) == MinimallySufficientPodSecurityStandard \in DOMAIN cfg.annotations

\* the values of the warn/audit labels of cfg that are level names
ParseableLabelValues(cfg) ==
  {cfg.labels[k] : k \in {k \in alertLabels \cap DOMAIN cfg.labels : cfg.labels[k] \in Levels}}

(* ---- C1 ---- *)
\* C1: every warning a call drains from the sink was emitted for that
\* call's own namespace: no warning of another namespace's dry-run apply is
\* left in the sink and read by a later call.
C1_NoLeak ==
  call.step \in DrainedSteps =>
    \A i \in 1..Len(call.popped) : call.popped[i].namespace = call.ns.name

(* ---- C2 ---- *)
\* C2 as stated: with no annotation and no warn/audit label whose value is
\* a level name, resolve fails with NoSignal and returns no level.
C2_Original ==
  (resolveOut.called /\ ~HasAnnotation(resolveIn) /\ ParseableLabelValues(resolveIn) = {}) =>
    (resolveOut.err = NoSignalErr /\ resolveOut.label = S_empty)

\* C2 amended: with no annotation and no warn/audit label present, resolve
\* fails with NoSignal and returns no level; with warn/audit labels present
\* but none a level name, resolve succeeds and returns restricted.
C2_NoSignal ==
  (resolveOut.called /\ ~HasAnnotation(resolveIn) /\ ParseableLabelValues(resolveIn) = {}) =>
    IF alertLabels \cap DOMAIN resolveIn.labels = {}
      THEN resolveOut.err = NoSignalErr /\ resolveOut.label = S_empty
      ELSE resolveOut.err = Nil /\ resolveOut.label = S_restricted

\* C2 witness: resolve was called on a configuration with no annotation and
\* no label, and failed with NoSignal.
C2_Witness ==
  /\ resolveOut.called
  /\ ~HasAnnotation(resolveIn)
  /\ DOMAIN resolveIn.labels = {}
  /\ resolveOut.err = NoSignalErr

UserPodsNotAllowed(level) ==
  {i \in 1..Len(call.pods) :
     /\ ValidatedSCCSubjectTypeAnnotation \in DOMAIN call.pods[i].annotations
     /\ call.pods[i].annotations[ValidatedSCCSubjectTypeAnnotation] = S_user
     /\ \E j \in 1..Len(EvaluatePod(level, call.pods[i])) :
          ~EvaluatePod(level, call.pods[i])[j].Allowed}

\* C4: a call that captured warnings and returns a violation attributes it
\* to a user workload exactly when the namespace is a Customer namespace
\* and some pod with the user subject type is not allowed at the resolved
\* level, wherever that pod stands in the list.
C4_Attribution ==
  (Len(call.popped) > 0 /\ result.violating) =>
    (result.userViolation <=>
       (/\ Category(call.ns) = "Customer"
        /\ UserPodsNotAllowed(ToLower(call.enforceLabel)) # {}))

\* C4 witness: the violation is attributed to a user workload because of
\* the second pod of the list, the first one not being a user's.
C4_Witness ==
  /\ result.violating /\ result.userViolation
  /\ Len(call.pods) = 2
  /\ UserPodsNotAllowed(ToLower(call.enforceLabel)) = {2}

(* ---- C5 ---- *)
\* C5: with no annotation and at least one warn/audit label that is a level
\* name, resolve returns one of those level names, at least as strict as
\* each of them, in every order the labels are visited.
C5_Strictest ==
  (resolveOut.called /\ ~HasAnnotation(resolveIn) /\ ParseableLabelValues(resolveIn) # {}) =>
    /\ resolveOut.err = Nil
    /\ resolveOut.label \in ParseableLabelValues(resolveIn)
    /\ \A v \in ParseableLabelValues(resolveIn) : Rank(v) <= Rank(resolveOut.label)

\* C5 witness: warn=restricted is visited before audit=baseline and
\* restricted is returned.
C5_Witness ==
  /\ resolveOut.called
  /\ ~HasAnnotation(resolveIn)
  /\ DOMAIN resolveIn.labels = alertLabels
  /\ resolveIn.labels[WarnLevelLabel] = S_restricted
  /\ resolveIn.labels[AuditLevelLabel] = S_baseline
  /\ resolveOrder = <<WarnLevelLabel, AuditLevelLabel>>
  /\ resolveOut.label = S_restricted

ListOf(op, category) ==
  IF op = "addViolation"
    THEN CASE category = "RunLevelZero" -> "violatingRunLevelZeroNamespaces"
           [] category = "OpenShiftManaged" -> "violatingOpenShiftNamespaces"
           [] category = "SyncDisabled" -> "violatingDisabledSyncerNamespaces"
           [] OTHER -> "violatingCustomerNamespaces"
    ELSE CASE category = "RunLevelZero" -> "inconclusiveRunLevelZeroNamespaces"
           [] category = "OpenShiftManaged" -> "inconclusiveOpenShiftNamespaces"
           [] category = "SyncDisabled" -> "inconclusiveDisabledSyncerNamespaces"
           [] OTHER -> "inconclusiveCustomerNamespaces"

\* C7: every addViolation or addInconclusive call appends the name to the
\* one list of its kind that the namespace's category selects and leaves
\* the other seven lists as they were.
C7_Append ==
  [][lastOp'.op \in {"addViolation", "addInconclusive"} =>
       c' = [c EXCEPT ![ListOf(lastOp'.op, Category(lastOp'.ns))] = Append(@, lastOp'.ns.name)]]_vars

\* C7 witness: an openshift namespace with the sync label "false" was added
\* as violating and is in the OpenShift list, not in the disabled-syncer
\* list.
C7_Witness ==
  /\ lastOp.op = "addViolation"
  /\ lastOp.ns.name = S_openshift_etcd
  /\ MapGet(lastOp.ns.labels, labelSyncControlLabel) = S_false
  /\ c.violatingOpenShiftNamespaces = <<S_openshift_etcd>>
  /\ c.violatingDisabledSyncerNamespaces = <<>>

(* ---- C8 ---- *)
\* a <= b, byte by byte
NameLeq(a, b) ==
  \/ \E k \in 1..Len(a) :
       /\ k <= Len(b)
       /\ SubSeq(a, 1, k - 1) = SubSeq(b, 1, k - 1)
       /\ a[k] < b[k]
  \/ (Len(a) <= Len(b) /\ SubSeq(b, 1, Len(a)) = a)

\* the one arrangement of the names of list in lexicographic order
InOrder(list) ==
  LET n == Len(list)
      arrangements ==
        {[i \in 1..n |-> list[p[i]]] :
           p \in {q \in [1..n -> 1..n] : \A i, j \in 1..n : i # j => q[i] # q[j]}}
  IN  CHOOSE a \in arrangements : \A i \in 1..(n - 1) : NameLeq(a[i], a[i + 1])

Expected(type, reason, template, list) ==
  IF Len(list) > 0
    THEN [Type |-> type, Status |-> "True", Reason |-> reason,
          Message |-> [format |-> template, v |-> <<91>> \o JoinWithSpace(InOrder(list)) \o <<93>>]]
    ELSE [Type |-> type, Status |-> "False", Reason |-> "ExpectedReason",
          Message |-> [format |-> "", v |-> <<>>]]

ViolationsTemplate == "Violations detected in namespaces: %v"
InconclusiveTemplate == "Could not evaluate violations for namespaces: %v"

\* C8: a rendering is eight conditions, one per type; each is True with its
\* kind's reason and the names of its list in lexicographic order when the
\* list is not empty, and False with the default reason otherwise; it
\* depends on the names of each list only, not on their order.
C8_Render ==
  lastOp.op = "toConditionFuncs" =>
    conditions =
      <<Expected(PodSecurityCustomerViolationType, violationReason, ViolationsTemplate, c.violatingCustomerNamespaces),
        Expected(PodSecurityOpenshiftViolationType, violationReason, ViolationsTemplate, c.violatingOpenShiftNamespaces),
        Expected(PodSecurityRunLevelZeroViolationType, violationReason, ViolationsTemplate, c.violatingRunLevelZeroNamespaces),
        Expected(PodSecurityDisabledSyncerViolationType, violationReason, ViolationsTemplate, c.violatingDisabledSyncerNamespaces),
        Expected(PodSecurityCustomerInconclusiveType, inconclusiveReason, InconclusiveTemplate, c.inconclusiveCustomerNamespaces),
        Expected(PodSecurityOpenshiftInconclusiveType, inconclusiveReason, InconclusiveTemplate, c.inconclusiveOpenShiftNamespaces),
        Expected(PodSecurityRunLevelZeroInconclusiveType, inconclusiveReason, InconclusiveTemplate, c.inconclusiveRunLevelZeroNamespaces),
        Expected(PodSecurityDisabledSyncerInconclusiveType, inconclusiveReason, InconclusiveTemplate, c.inconclusiveDisabledSyncerNamespaces)>>

\* C8 witness: a rendering with two customer violations and no customer
\* inconclusive namespace.
C8_Witness ==
  /\ lastOp.op = "toConditionFuncs"
  /\ Len(c.violatingCustomerNamespaces) = 2
  /\ c.inconclusiveCustomerNamespaces = <<>>
  /\ Len(conditions) = 8
  /\ conditions[1].Status = "True"
  /\ conditions[5].Status = "False"

(* ---- C9 ---- *)
\* C9 as stated: no call ends with the unknown-level error.
C9_Original == call.step # "unknownLevel"

\* C9 amended: in a call that reaches the level switch of the attribution
\* step, a level resolved from the warn/audit labels is always recognized;
\* a level taken from the annotation is recognized exactly when its
\* lower-cased value is a level name, and otherwise the call returns the
\* unknown-level error.
C9_KnownLevel ==
  call.step \in {"unknownLevel", "listErr", "evaluated"} =>
    /\ (~HasAnnotation(call.extracted) => call.step # "unknownLevel")
    /\ (call.step = "unknownLevel" <=>
          ToLower(call.enforceLabel) \notin Levels)
    /\ (call.step = "unknownLevel" =>
          result = Returned(FALSE, FALSE, UnknownLevelErr(call.enforceLabel)))

\* C9 witness: the level came from an unparseable warn label, and the
\* attribution step went on to evaluate the pods.
C9_Witness ==
  /\ call.step = "evaluated"
  /\ ~HasAnnotation(call.extracted)
  /\ WarnLevelLabel \in DOMAIN call.extracted.labels
  /\ call.extracted.labels[WarnLevelLabel] = S_bogus
  /\ call.enforceLabel = S_restricted

(* ---- C10 ---- *)
\* what the types of a returned triple show: the two booleans and the
\* dynamic type of the error
Typed(r) == [violating |-> r.violating, userViolation |-> r.userViolation, errType |-> r.err.type]

====
